---- MODULE Spec2Model ----
(***************************************************************************)
(* Credential lifecycle and request execution of StravaMCP/strava.py:      *)
(* the module globals STRAVA_ACCESS_TOKEN / STRAVA_REFRESH_TOKEN, the      *)
(* coroutine refresh_access_token and the coroutine make_strava_request,   *)
(* run as concurrent tasks on one asyncio event loop.  A task runs         *)
(* atomically between two awaits of network I/O (client.post, client.get): *)
(* the token an exchange or a GET carries is the one the global held when  *)
(* the task reached that await.  The token endpoint and the resource API   *)
(* are the environment: either a well-behaved upstream that rotates the    *)
(* refresh token on each exchange and honours unexpired access tokens, or  *)
(* one that may answer anything.                                           *)
(*                                                                         *)
(* The tools (get_activities, get_stats, get_activity, get_athlete,        *)
(* get_routes) and the normalizers they apply (format_activity,            *)
(* format_stats) are functions of the value make_strava_request returned:  *)
(* SpecTools applies them to every value of a bounded set.                 *)
(***************************************************************************)
EXTENDS Integers, Sequences, FiniteSets, TLC

\* ---------------------------------------------------------------- bounds
NCalls == 2        \* make_strava_request invocations, run concurrently
MaxTime == 1       \* instants the clock can reach

Calls == 1..NCalls

\* ------------------------------------------------------ values and markers
None == 0          \* Python None: no token (token values are >= 1)
Empty == -2        \* the empty string: a token that line 121 takes for none
Missing == -1      \* a key absent from the token endpoint's JSON body, or
                   \* (expires_at) a value datetime.fromtimestamp rejects
Unknown == -1      \* no expiry instant known for the stored access token

VARIABLES
    STRAVA_ACCESS_TOKEN,   \* module global, None or a token
    STRAVA_REFRESH_TOKEN,  \* module global
    expires_at,            \* the expires_at read for the stored access token
    pc,                    \* per call: the await it is suspended at
    params,                \* per call: params['access_token'] of its GET
    data,                  \* per call: data['refresh_token'] of its POST
    response,              \* per call: the rotating upstream's answer in flight
    result,                \* per call: what make_strava_request returned
    nRefresh,              \* per call: token-endpoint POSTs it issued
    nRefreshPre,           \* per call: those issued before its primary GET
    nGet,                  \* per call: GETs it issued
    primary,               \* per call: outcome of its primary GET
    primaryToken,          \* per call: access token its primary GET carried
    retry,                 \* per call: outcome of its retry GET
    refreshOk,             \* per call: what its awaited refresh_access_token returned
    granted,               \* tokens of the last exchange that returned True
    sentExpired,           \* a GET left carrying a token known to be expired
    callerParams,          \* per call: keys of the mapping its caller passed
    tokenLogged,           \* per call: a record it emitted held its access token
    tool,                  \* the tool invoked, "none" when none is
    fetched,               \* what make_strava_request returned to that tool
    toolResponse,          \* what the tool returned
    now,                   \* the clock
    upRefresh,             \* upstream: the refresh token it accepts
    upIssued,              \* upstream: expiry instant of each access token issued
    upstreamMode           \* "rotating" (well-behaved), "arbitrary" or
                           \* "arbitrary-empty"

vars == <<STRAVA_ACCESS_TOKEN, STRAVA_REFRESH_TOKEN, expires_at, pc, params,
          data, response, result, nRefresh, nRefreshPre, nGet, primary,
          primaryToken, retry, refreshOk, granted, sentExpired, callerParams,
          tokenLogged, tool, fetched, toolResponse, now, upRefresh,
          upIssued, upstreamMode>>

credentials == <<STRAVA_ACCESS_TOKEN, STRAVA_REFRESH_TOKEN, expires_at>>

clientVars == <<credentials, pc, params, data, result, nRefresh, nRefreshPre,
                nGet, primary, primaryToken, retry, refreshOk, granted,
                sentExpired, callerParams, tokenLogged>>

toolVars == <<tool, fetched, toolResponse>>

upstreamVars == <<upRefresh, upIssued, upstreamMode>>

Refreshing == {"refresh0", "refresh1"}

Getting == {"get1", "get2"}

NoResponse == [kind |-> "pending", at |-> None, rt |-> None, exp |-> Unknown]

GetResponse(k) == [kind |-> k, at |-> None, rt |-> None, exp |-> Unknown]

TokenResponse(k, a, r, e) == [kind |-> k, at |-> a, rt |-> r, exp |-> e]

\* ------------------------------------------------ what the tools work on
Tools == {"get_activities", "get_stats", "get_activity", "get_athlete",
          "get_routes"}

\* The keys format_stats reads from the raw stats (lines 201-236).
Buckets == {"recent_ride_totals", "recent_run_totals", "ytd_ride_totals",
            "ytd_run_totals", "all_ride_totals", "all_run_totals"}

\* A raw activity, as far as format_activity reads it: start_date is absent,
\* the empty string, an ISO-8601 instant or another string; distance is in
\* metres, moving_time in seconds, average_speed in mm/s (5000 is 5.0 m/s);
\* a numeric key can be absent.
NoActivity ==
    [start_date |-> "absent", distance |-> Missing, moving_time |-> Missing,
     average_speed |-> Missing]

Activities ==
    [start_date : {"absent", "empty", "valid", "malformed"},
     distance : {Missing, 0, 1005, 1006, 10000},
     moving_time : {Missing, 90, 150, 1800},
     average_speed : {Missing, 2625, 5000}]

\* The totals of a bucket the raw stats hold in full.
FullTotals ==
    [count |-> 3, distance |-> 12346, moving_time |-> 5400,
     elevation_gain |-> 120]

NoTotals ==
    [count |-> Missing, distance |-> Missing, moving_time |-> Missing,
     elevation_gain |-> Missing]

\* Raw stats: each bucket key is missing, maps to an empty mapping, or maps
\* to full totals; other says the mapping has keys besides the six.
NoStats == [buckets |-> [b \in Buckets |-> "missing"], other |-> FALSE]

StatsMappings ==
    [buckets : [Buckets -> {"missing", "empty", "full"}], other : BOOLEAN]

is_empty_stats(s) == ~s.other /\ \A b \in Buckets : s.buckets[b] = "missing"

\* What make_strava_request returned to a tool: None ("none"), an empty list
\* or mapping ("empty"), or a mapping or a one-element list ("json").
NoValue == [kind |-> "none", activity |-> NoActivity, stats |-> NoStats]

EmptyValue == [kind |-> "empty", activity |-> NoActivity, stats |-> NoStats]

Fetchable(t) ==
    {NoValue, EmptyValue}
    \cup IF t \in {"get_activities", "get_activity"}
         THEN {[kind |-> "json", activity |-> a, stats |-> NoStats] :
                  a \in Activities}
         ELSE IF t = "get_stats"
         THEN {[kind |-> "json", activity |-> NoActivity, stats |-> st] :
                  st \in {x \in StatsMappings : ~is_empty_stats(x)}}
         ELSE {[kind |-> "json", activity |-> NoActivity, stats |-> NoStats]}

\* A tool's response: the keys of the mapping it returned, the value under
\* "success" and the shape of the one under "data"; items holds the formatted
\* activities and totals the formatted stats.  status "raised": the tool
\* raised instead of returning.
NotReturned ==
    [status |-> "pending", keys |-> {}, success |-> "absent",
     data |-> "absent", items |-> <<>>, totals |-> <<>>]

\* ---------------------------------------------------------------- callers
\* Who awaits call c: the odd calls come from get_athlete_activities, which
\* passes a params mapping (lines 387-392, as get_routes does at 348-353),
\* the even ones from get_athlete, which passes none (line 314).
Caller(c) == IF c % 2 = 1 THEN "get_athlete_activities" ELSE "get_athlete"

passes_params(caller) == caller \in {"get_athlete_activities", "get_routes"}

\* The keys of the mapping the caller built; none when it passes no mapping.
supplied_params(caller) ==
    IF passes_params(caller) THEN {"per_page", "page"} ELSE {}

\* ------------------------------------------------------------------- Init
\* The globals as lines 64-67 load them: an access token may be configured
\* or not; the configured one may have expired upstream already.
ClientInit ==
    /\ STRAVA_ACCESS_TOKEN \in {None, 1}
    /\ STRAVA_REFRESH_TOKEN = 1
    /\ expires_at = Unknown
    /\ pc = [c \in Calls |-> "idle"]
    /\ params = [c \in Calls |-> None]
    /\ data = [c \in Calls |-> None]
    /\ response = [c \in Calls |-> NoResponse]
    /\ result = [c \in Calls |-> "pending"]
    /\ nRefresh = [c \in Calls |-> 0]
    /\ nRefreshPre = [c \in Calls |-> 0]
    /\ nGet = [c \in Calls |-> 0]
    /\ primary = [c \in Calls |-> "pending"]
    /\ primaryToken = [c \in Calls |-> None]
    /\ retry = [c \in Calls |-> "pending"]
    /\ refreshOk = [c \in Calls |-> "none"]
    /\ granted = [at |-> None, rt |-> None]
    /\ sentExpired = FALSE
    /\ callerParams = [c \in Calls |-> supplied_params(Caller(c))]
    /\ tokenLogged = [c \in Calls |-> FALSE]
    /\ now = 0
    /\ upRefresh = 1
    /\ \E e \in {0, 1} : upIssued = <<e>>
    /\ upstreamMode \in {"rotating", "arbitrary", "arbitrary-empty"}

Init ==
    /\ ClientInit
    /\ tool = "none"
    /\ fetched = NoValue
    /\ toolResponse = NotReturned

\* ----------------------------------------------- what the awaits can yield
\* An arbitrary token endpoint (client.post, lines 100-102): a transport
\* error, a non-2xx status, a body that is not JSON, or a JSON body with any
\* of its fields missing or malformed (access_token may also be null).  The
\* access tokens it hands out have the value 2: other than the configured
\* ones on the first exchange, the same again on later ones.  The endpoint
\* of mode "arbitrary-empty" hands out the empty string in their place.
ArbitraryTokenResponses ==
    {TokenResponse(k, None, None, Unknown) : k \in {"transport", "non2xx", "badjson"}}
    \cup {TokenResponse("body", a, r, e) :
             a \in {Missing, None,
                    IF upstreamMode = "arbitrary-empty" THEN Empty ELSE 2},
             r \in {Missing, 2},
             e \in {Missing, now + 1}}

\* An arbitrary resource API (client.get, lines 141, 150): 2xx with JSON, 2xx
\* with a malformed body, 401, another non-2xx status, or a timeout or
\* connection error.
ArbitraryGetResponses ==
    {GetResponse(k) : k \in {"ok", "badjson", "401", "err", "transport"}}

\* The responses call c's await can resume with in this state.
Arrived(c) ==
    IF upstreamMode = "rotating"
    THEN {response[c]} \ {NoResponse}
    ELSE IF pc[c] \in Refreshing
    THEN ArbitraryTokenResponses
    ELSE ArbitraryGetResponses

\* ------------------------------------------------- refresh_access_token
\* Lines 100-115 applied to the token endpoint's response resp, with the
\* globals holding a (access), r (refresh) and e (known expiry) before.
\* Each statement of the try block either raises (-> return False with what
\* was assigned so far) or assigns.
\* (refresh_access_token_keeps_refresh: the same without the assignment of
\* line 106, so that the consumed refresh token stays stored.)
refresh_access_token_keeps_refresh(resp, a, r, e) ==
    IF resp.kind # "body" \/ resp.at = Missing
    THEN [ok |-> FALSE, at |-> a, rt |-> r, exp |-> e]
    ELSE IF resp.rt = Missing
    THEN [ok |-> FALSE, at |-> resp.at, rt |-> r, exp |-> Unknown]
    ELSE IF resp.exp = Missing
    THEN [ok |-> FALSE, at |-> resp.at, rt |-> r, exp |-> Unknown]
    ELSE IF resp.at = None
    THEN [ok |-> FALSE, at |-> resp.at, rt |-> r, exp |-> resp.exp]
    ELSE [ok |-> TRUE, at |-> resp.at, rt |-> r, exp |-> resp.exp]

refresh_access_token(resp, a, r, e) ==
    IF resp.kind # "body"                      \* raise at 100, 101 or 102
    THEN [ok |-> FALSE, at |-> a, rt |-> r, exp |-> e]
    ELSE IF resp.at = Missing                  \* KeyError at 105
    THEN [ok |-> FALSE, at |-> a, rt |-> r, exp |-> e]
    ELSE IF resp.rt = Missing                  \* 105 assigned, KeyError at 106
    THEN [ok |-> FALSE, at |-> resp.at, rt |-> r, exp |-> Unknown]
    ELSE IF resp.exp = Missing                 \* 105, 106 assigned, 108 raises
    THEN [ok |-> FALSE, at |-> resp.at, rt |-> resp.rt, exp |-> Unknown]
    ELSE IF resp.at = None                     \* None[:5] raises at 110
    THEN [ok |-> FALSE, at |-> resp.at, rt |-> resp.rt, exp |-> resp.exp]
    ELSE [ok |-> TRUE, at |-> resp.at, rt |-> resp.rt, exp |-> resp.exp]

\* ---------------------------------------------------- make_strava_request
\* What the code does with the primary GET's outcome (lines 141-167).
\* (primary_outcome_refresh_on_timeout: a transport error is taken for an
\* expired token; primary_outcome_refresh_on_status: so is any non-2xx;
\* primary_outcome_refresh_on_badjson: so is a body that is not JSON.)
primary_outcome_refresh_on_timeout(kind) ==
    IF kind \in {"401", "transport"} THEN "refresh"
    ELSE IF kind = "ok" THEN "json"
    ELSE "none"

primary_outcome_refresh_on_status(kind) ==
    IF kind \in {"401", "err"} THEN "refresh"
    ELSE IF kind = "ok" THEN "json"
    ELSE "none"

primary_outcome_refresh_on_badjson(kind) ==
    IF kind \in {"401", "badjson"} THEN "refresh"
    ELSE IF kind = "ok" THEN "json"
    ELSE "none"

primary_outcome(kind) ==
    IF kind = "401" THEN "refresh"             \* line 144
    ELSE IF kind = "ok" THEN "json"            \* lines 158-160
    ELSE "none"                                \* lines 161-167

\* What the code does with the retry GET's outcome (lines 150-153, 161-167).
\* (retry_outcome_no_raise: the same without raise_for_status at line 151, so
\* that the body of an error response is returned; retry_outcome_propagates:
\* the same with only httpx.HTTPStatusError caught, so that the ValueError
\* of response.json() leaves the coroutine.)
retry_outcome_propagates(kind) ==
    IF kind = "ok" THEN "json"
    ELSE IF kind = "badjson" THEN "raised"
    ELSE "none"

retry_outcome_no_raise(kind) ==
    IF kind \in {"ok", "401", "err"} THEN "json" ELSE "none"

retry_outcome(kind) ==
    IF kind = "ok" THEN "json" ELSE "none"

\* The test of line 121: None and the empty string are falsy.
\* (needs_token_inverted: the test negated.)
needs_token_inverted(token) == token \notin {None, Empty}

needs_token(token) == token \in {None, Empty}

\* The access token the retry GET carries (line 148), the primary GET having
\* carried sent and the global holding stored when the refresh returned.
\* (retry_token_stale: the same without line 148, params left as it was.)
retry_token_stale(sent, stored) == sent

retry_token(sent, stored) == stored

\* The level setup_logging() sets at line 52, by the default of line 14.
log_level == "INFO"

\* The numeric value of a logging level.
level_no(level) ==
    CASE level = "DEBUG" -> 10
      [] level = "INFO" -> 20
      [] level = "WARNING" -> 30
      [] level = "ERROR" -> 40

\* A record of this level passes the logger and its handlers (lines 25-42).
emitted(level) == level_no(level) >= level_no(log_level)

\* The GET's outcome is a status raise_for_status (lines 151, 158) raises
\* for.  The text of that exception names the request URL, query string
\* included, and line 162 puts it in an ERROR record.
status_error(kind) == kind \in {"401", "err"}

\* The token's known expiry instant e has passed at instant t.
known_expired(e, t) == e # Unknown /\ e <= t

\* client.post(url, data=data) at line 100, with data built at lines 90-95.
PostRefresh(c, at) ==
    /\ data' = [data EXCEPT ![c] = STRAVA_REFRESH_TOKEN]
    /\ nRefresh' = [nRefresh EXCEPT ![c] = @ + 1]
    /\ pc' = [pc EXCEPT ![c] = at]
    /\ refreshOk' = [refreshOk EXCEPT ![c] = "pending"]
    /\ UNCHANGED <<params, nGet, sentExpired, result, callerParams>>

\* client.get(url, params=params) at line 141 or 150, carrying token tok
\* whose known expiry is e.  Lines 132 and 148 store the token in params,
\* which is the caller's own mapping unless it passed none (lines 128-129).
SendGet(c, at, tok, e) ==
    /\ params' = [params EXCEPT ![c] = tok]
    /\ callerParams' = [callerParams EXCEPT ![c] =
           IF passes_params(Caller(c)) THEN @ \cup {"access_token"} ELSE @]
    /\ nGet' = [nGet EXCEPT ![c] = @ + 1]
    /\ pc' = [pc EXCEPT ![c] = at]
    /\ sentExpired' = (sentExpired \/ known_expired(e, now))
    /\ UNCHANGED <<data, nRefresh, result>>

\* return from make_strava_request: its locals are gone.
\* (Return_awaits_again: the coroutine does not return, it stays at the await
\* it resumed from.)
Return_awaits_again(c, value) ==
    /\ result' = [result EXCEPT ![c] = value]
    /\ pc' = pc
    /\ params' = [params EXCEPT ![c] = None]
    /\ data' = [data EXCEPT ![c] = None]
    /\ UNCHANGED <<nGet, nRefresh, sentExpired, callerParams>>

Return(c, value) ==
    /\ result' = [result EXCEPT ![c] = value]
    /\ pc' = [pc EXCEPT ![c] = "done"]
    /\ params' = [params EXCEPT ![c] = None]
    /\ data' = [data EXCEPT ![c] = None]
    /\ UNCHANGED <<nGet, nRefresh, sentExpired, callerParams>>

\* refresh_access_token, awaited by call c, returns r for response resp: the
\* globals as lines 105-106 (and 108) left them.  Line 110 puts the first
\* five characters of the access token in a DEBUG record.
StoreTokens(c, resp, r) ==
    /\ tokenLogged' = [tokenLogged EXCEPT ![c] = @ \/ (r.ok /\ emitted("DEBUG"))]
    /\ refreshOk' = [refreshOk EXCEPT ![c] = IF r.ok THEN "true" ELSE "false"]
    /\ STRAVA_ACCESS_TOKEN' = r.at
    /\ STRAVA_REFRESH_TOKEN' = r.rt
    /\ expires_at' = r.exp
    /\ granted' = IF r.ok THEN [at |-> resp.at, rt |-> resp.rt] ELSE granted

\* Lines 117-141: entry, up to the first await.  Calls are numbered in the
\* order they are made.
Call(c) ==
    /\ pc[c] = "idle"
    /\ IF c = 1 THEN TRUE ELSE pc[c - 1] # "idle"
    /\ IF needs_token(STRAVA_ACCESS_TOKEN)
       THEN /\ PostRefresh(c, "refresh0")
            /\ nRefreshPre' = [nRefreshPre EXCEPT ![c] = @ + 1]
            /\ UNCHANGED primaryToken
       ELSE /\ SendGet(c, "get1", STRAVA_ACCESS_TOKEN, expires_at)
            /\ primaryToken' = [primaryToken EXCEPT ![c] = STRAVA_ACCESS_TOKEN]
            /\ UNCHANGED <<nRefreshPre, refreshOk>>
    /\ UNCHANGED <<credentials, granted, response, primary, retry, tokenLogged,
                   now, upstreamVars, toolVars>>

\* Line 123 resumes: the refresh awaited before the primary GET returns.
InitialRefreshReturns(c) ==
    /\ pc[c] = "refresh0"
    /\ \E resp \in Arrived(c) :
          LET r == refresh_access_token(resp, STRAVA_ACCESS_TOKEN,
                                        STRAVA_REFRESH_TOKEN, expires_at)
          IN  /\ StoreTokens(c, resp, r)
              /\ IF r.ok
                 THEN /\ SendGet(c, "get1", r.at, r.exp)
                      /\ primaryToken' = [primaryToken EXCEPT ![c] = r.at]
                 ELSE /\ Return(c, "none")                  \* line 125
                      /\ UNCHANGED primaryToken
    /\ response' = [response EXCEPT ![c] = NoResponse]
    /\ UNCHANGED <<nRefreshPre, primary, retry, now, upstreamVars, toolVars>>

\* Line 141 resumes: the primary GET's outcome is handled (lines 144-167).
PrimaryReturns(c) ==
    /\ pc[c] = "get1"
    /\ \E resp \in Arrived(c) :
          /\ primary' = [primary EXCEPT ![c] = resp.kind]
          /\ LET o == primary_outcome(resp.kind)
             IN  /\ IF o = "refresh"
                    THEN PostRefresh(c, "refresh1")         \* line 146
                    ELSE Return(c, o) /\ UNCHANGED refreshOk
                 /\ tokenLogged' = [tokenLogged EXCEPT ![c] =   \* line 162
                        @ \/ (o = "none" /\ status_error(resp.kind)
                                         /\ emitted("ERROR"))]
    /\ response' = [response EXCEPT ![c] = NoResponse]
    /\ UNCHANGED <<credentials, granted, nRefreshPre, primaryToken, retry,
                   now, upstreamVars, toolVars>>

\* Line 146 resumes: the refresh awaited after a 401 returns (lines 146-156).
RetryRefreshReturns(c) ==
    /\ pc[c] = "refresh1"
    /\ \E resp \in Arrived(c) :
          LET r == refresh_access_token(resp, STRAVA_ACCESS_TOKEN,
                                        STRAVA_REFRESH_TOKEN, expires_at)
          IN  /\ StoreTokens(c, resp, r)
              /\ IF r.ok
                 THEN SendGet(c, "get2", retry_token(params[c], r.at),
                              r.exp)                        \* lines 148-150
                 ELSE Return(c, "none")                     \* line 156
    /\ response' = [response EXCEPT ![c] = NoResponse]
    /\ UNCHANGED <<nRefreshPre, primary, primaryToken, retry, now,
                   upstreamVars, toolVars>>

\* Line 150 resumes: the retry GET's outcome is handled (lines 151-167).
RetryReturns(c) ==
    /\ pc[c] = "get2"
    /\ \E resp \in Arrived(c) :
          /\ retry' = [retry EXCEPT ![c] = resp.kind]
          /\ Return(c, retry_outcome(resp.kind))
          /\ tokenLogged' = [tokenLogged EXCEPT ![c] =          \* line 162
                 @ \/ (status_error(resp.kind) /\ emitted("ERROR"))]
    /\ response' = [response EXCEPT ![c] = NoResponse]
    /\ UNCHANGED <<credentials, granted, nRefreshPre, primary, primaryToken,
                   refreshOk, now, upstreamVars, toolVars>>

\* ----------------------------------------------------------- the upstream
\* The token endpoint behind client.post (line 100), well-behaved: it
\* accepts only its current refresh token, and each exchange rotates it.
TokenEndpointRotating(c) ==
    /\ upstreamMode = "rotating"
    /\ pc[c] \in Refreshing
    /\ response[c] = NoResponse
    /\ IF data[c] = upRefresh
       THEN /\ response' = [response EXCEPT ![c] =
                  TokenResponse("body", Len(upIssued) + 1, upRefresh + 1, now + 1)]
            /\ upIssued' = Append(upIssued, now + 1)
            /\ upRefresh' = upRefresh + 1
       ELSE /\ response' = [response EXCEPT ![c] =
                  TokenResponse("non2xx", None, None, Unknown)]
            /\ UNCHANGED <<upIssued, upRefresh>>
    /\ UNCHANGED <<clientVars, now, upstreamMode, toolVars>>

\* The resource API behind client.get (lines 141, 150), well-behaved: 2xx
\* with a JSON body for an unexpired access token it issued, 401 otherwise.
ApiRotating(c) ==
    /\ upstreamMode = "rotating"
    /\ pc[c] \in Getting
    /\ response[c] = NoResponse
    /\ LET valid == /\ params[c] \in 1..Len(upIssued)
                    /\ now < upIssued[params[c]]
       IN  response' = [response EXCEPT ![c] =
               GetResponse(IF valid THEN "ok" ELSE "401")]
    /\ UNCHANGED <<clientVars, now, upstreamVars, toolVars>>

\* Time passes.
Tick ==
    /\ now < MaxTime
    /\ now' = now + 1
    /\ UNCHANGED <<clientVars, response, upstreamVars, toolVars>>

Next ==
    \/ \E c \in Calls : Call(c)
    \/ \E c \in Calls : InitialRefreshReturns(c)
    \/ \E c \in Calls : PrimaryReturns(c)
    \/ \E c \in Calls : RetryRefreshReturns(c)
    \/ \E c \in Calls : RetryReturns(c)
    \/ \E c \in Calls : TokenEndpointRotating(c)
    \/ \E c \in Calls : ApiRotating(c)
    \/ Tick

Spec == Init /\ [][Next]_vars

\* Every request a call awaits completes, with a response or with an error
\* (client.post at line 100 and client.get at lines 141 and 150 run under a
\* timeout), and the event loop then resumes the call.  Nothing obliges a
\* caller to invoke make_strava_request, nor time to pass.
Fairness ==
    \A c \in Calls :
        /\ WF_vars(InitialRefreshReturns(c))
        /\ WF_vars(PrimaryReturns(c))
        /\ WF_vars(RetryRefreshReturns(c))
        /\ WF_vars(RetryReturns(c))
        /\ WF_vars(TokenEndpointRotating(c))
        /\ WF_vars(ApiRotating(c))

SpecLive == Init /\ [][Next]_vars /\ Fairness

\* ------------------------------------------------------------- normalizers
\* dict.get(key, 0) of a numeric key.
get_or_zero(v) == IF v = Missing THEN 0 ELSE v

\* round() of the float num/den to an integer.  Where num/den lies halfway
\* between two integers, the float computed for it lies on either side: up
\* says which.
\* (round_float_truncating: the fraction dropped instead.)
round_float_truncating(num, den, up) == num \div den

round_float(num, den, up) ==
    LET q == num \div den
        r == num % den
    IN  IF 2 * r < den THEN q
        ELSE IF 2 * r > den THEN q + 1
        ELSE IF up THEN q + 1 ELSE q

\* round() of num/den where the halfway quotients are exact floats (k + 0.5):
\* Python rounds those to the even neighbour.
round_half_even(num, den) ==
    LET q == num \div den
        r == num % den
    IN  IF 2 * r < den THEN q
        ELSE IF 2 * r > den THEN q + 1
        ELSE IF q % 2 = 0 THEN q ELSE q + 1

\* format_activity (lines 169-190).  distance_km is in hundredths of a km,
\* average_speed_kph in tenths of a km/h.  datetime.fromisoformat (line 175)
\* raises ValueError for a string that is no ISO-8601 instant, and nothing
\* catches it.
format_activity(a, upd, ups) ==
    IF a.start_date = "malformed"
    THEN [raised |-> TRUE, date |-> "none", distance_km |-> 0,
          moving_time_minutes |-> 0, average_speed_kph |-> 0]
    ELSE [raised |-> FALSE,
          date |-> IF a.start_date = "valid" THEN "formatted" ELSE "Unknown",
          distance_km |-> round_float(get_or_zero(a.distance), 10, upd),
          moving_time_minutes |->
              round_half_even(get_or_zero(a.moving_time), 60),
          average_speed_kph |->
              round_float(get_or_zero(a.average_speed) * 36, 1000, ups)]

\* One bucket of format_stats: stats.get(bucket, {}).get(field, 0), scaled
\* and rounded (lines 202-205).  distance_km is in hundredths of a km,
\* moving_time_hours in hundredths of an hour.
bucket_totals(kind, up) ==
    LET raw == IF kind = "full" THEN FullTotals ELSE NoTotals
    IN  [count |-> get_or_zero(raw.count),
         distance_km |-> round_float(get_or_zero(raw.distance), 10, up),
         moving_time_hours |-> round_float(get_or_zero(raw.moving_time), 36, up),
         elevation_gain_m |-> round_float(get_or_zero(raw.elevation_gain), 1, up)]

\* format_stats (lines 192-237): the mapping it returns, by key.
\* (format_stats_present_only: the same with a bucket only for the keys the
\* raw stats hold.)
format_stats_present_only(st, up) ==
    IF is_empty_stats(st)
    THEN [k \in {"error"} |-> bucket_totals("missing", up)]
    ELSE [b \in {x \in Buckets : st.buckets[x] # "missing"} |->
             bucket_totals(st.buckets[b], up)]

format_stats(st, up) ==
    IF is_empty_stats(st)                              \* lines 196-198
    THEN [k \in {"error"} |-> bucket_totals("missing", up)]
    ELSE [b \in Buckets |-> bucket_totals(st.buckets[b], up)]

\* ------------------------------------------------------------------- tools
\* `if not x` on what make_strava_request returned (lines 246, 266, 285,
\* 316, 355): None, [] and {} are falsy.
\* (truthy_unless_none: the test `if x is None` in its place.)
truthy_unless_none(v) == v.kind # "none"

truthy(v) == v.kind = "json"

\* The mapping a tool returns when that test fails (lines 248, 268, 287,
\* 318, 357): an "error" message and empty "data".
failure_response(empty) ==
    [status |-> "returned", keys |-> {"error", "data"}, success |-> "absent",
     data |-> empty, items |-> <<>>, totals |-> <<>>]

\* The mapping a tool returns otherwise (lines 253-257, 272-275, 304-307,
\* 337-340, 372-376).
success_response(keys, shape, items, totals) ==
    [status |-> "returned", keys |-> keys, success |-> "true",
     data |-> shape, items |-> items, totals |-> totals]

\* An exception leaves the tool.
RaisedResponse ==
    [status |-> "raised", keys |-> {}, success |-> "absent",
     data |-> "absent", items |-> <<>>, totals |-> <<>>]

\* Lines 241-257, after get_athlete_activities returned fetched.
get_activities ==
    /\ tool = "get_activities"
    /\ toolResponse.status = "pending"
    /\ \E upd, ups \in BOOLEAN :
          LET f == format_activity(fetched.activity, upd, ups)
          IN  toolResponse' =
                  IF ~truthy(fetched) THEN failure_response("empty_list")
                  ELSE IF f.raised THEN RaisedResponse
                  ELSE success_response({"success", "count", "data"},
                                        "list", <<f>>, <<>>)
    /\ UNCHANGED <<clientVars, response, now, upstreamVars, tool, fetched>>

\* Lines 260-276, after get_athlete_stats returned fetched.
get_stats ==
    /\ tool = "get_stats"
    /\ toolResponse.status = "pending"
    /\ \E up \in BOOLEAN :
          toolResponse' =
              IF ~truthy(fetched) THEN failure_response("empty_mapping")
              ELSE success_response({"success", "data"}, "mapping", <<>>,
                                    format_stats(fetched.stats, up))
    /\ UNCHANGED <<clientVars, response, now, upstreamVars, tool, fetched>>

\* Lines 279-307, after get_activity_details returned fetched.
get_activity ==
    /\ tool = "get_activity"
    /\ toolResponse.status = "pending"
    /\ \E upd, ups \in BOOLEAN :
          LET f == format_activity(fetched.activity, upd, ups)
          IN  toolResponse' =
                  IF ~truthy(fetched) THEN failure_response("empty_mapping")
                  ELSE IF f.raised THEN RaisedResponse
                  ELSE success_response({"success", "data"}, "mapping",
                                        <<f>>, <<>>)
    /\ UNCHANGED <<clientVars, response, now, upstreamVars, tool, fetched>>

\* Lines 310-340, after make_strava_request returned fetched.
get_athlete ==
    /\ tool = "get_athlete"
    /\ toolResponse.status = "pending"
    /\ toolResponse' =
           IF ~truthy(fetched) THEN failure_response("empty_mapping")
           ELSE success_response({"success", "data"}, "mapping", <<>>, <<>>)
    /\ UNCHANGED <<clientVars, response, now, upstreamVars, tool, fetched>>

\* Lines 343-376, after make_strava_request returned fetched.
get_routes ==
    /\ tool = "get_routes"
    /\ toolResponse.status = "pending"
    /\ toolResponse' =
           IF ~truthy(fetched) THEN failure_response("empty_list")
           ELSE success_response({"success", "count", "data"}, "list",
                                 <<>>, <<>>)
    /\ UNCHANGED <<clientVars, response, now, upstreamVars, tool, fetched>>

\* A tool is invoked and make_strava_request has returned to it; the
\* credential state is at rest.
ToolsInit ==
    /\ ClientInit
    /\ STRAVA_ACCESS_TOKEN = 1
    /\ upIssued = <<1>>
    /\ upstreamMode = "arbitrary"
    /\ tool \in Tools
    /\ fetched \in Fetchable(tool)
    /\ toolResponse = NotReturned

ToolsNext ==
    \/ get_activities
    \/ get_stats
    \/ get_activity
    \/ get_athlete
    \/ get_routes

SpecTools == ToolsInit /\ [][ToolsNext]_vars

\* ================================================================ claims
RECURSIVE SumOver(_, _)
SumOver(S, f) ==
    IF S = {} THEN 0
    ELSE LET c == CHOOSE x \in S : TRUE IN f[c] + SumOver(S \ {c}, f)

\* Refresh exchanges a call issued after its primary GET.
RefreshesAfterGet == [c \in Calls |-> nRefresh[c] - nRefreshPre[c]]

\* The calls whose primary GET carried access token t and was answered 401.
StaleCallers(t) == {c \in Calls : primary[c] = "401" /\ primaryToken[c] = t}

\* C1: against the rotating upstream, the calls that each got a 401 for a
\* request sent with the same stale access token issue at most one refresh
\* exchange between them.
C1_OneRefreshForAllStaleCallers ==
    upstreamMode = "rotating" =>
        \A t \in {primaryToken[c] : c \in Calls} :
            SumOver(StaleCallers(t), RefreshesAfterGet) <= 1

\* C2: at most one refresh exchange is in flight (POST sent, response not
\* yet handled) in every reachable state.
C2_OneRefreshInFlight ==
    Cardinality({c \in Calls : pc[c] \in Refreshing}) <= 1

\* C3: against the rotating upstream, once the calls that observed the same
\* stale token have all returned, an exchange having succeeded and every
\* retry having been accepted, each of them returned a JSON value.
C3_AllStaleCallersSucceed ==
    upstreamMode = "rotating" =>
        \A t \in {primaryToken[c] : c \in Calls} :
            ( /\ Cardinality(StaleCallers(t)) >= 2
              /\ \A c \in StaleCallers(t) : pc[c] = "done" /\ retry[c] # "401"
              /\ \E c \in StaleCallers(t) : refreshOk[c] = "true" )
            => \A c \in StaleCallers(t) : result[c] = "json"

\* C4: a call whose primary GET was answered 401 issues exactly one refresh
\* exchange for it; if that refresh returns True it sends exactly one retry
\* GET, otherwise none; and a retry answered 401 ends the call with absence,
\* with no further refresh or GET.
C4_OneRefreshOneRetry ==
    \A c \in Calls :
        primary[c] = "401" =>
            /\ RefreshesAfterGet[c] = 1
            /\ refreshOk[c] = "pending" => pc[c] = "refresh1" /\ nGet[c] = 1
            /\ refreshOk[c] = "false" =>
                   pc[c] = "done" /\ result[c] = "none" /\ nGet[c] = 1
            /\ refreshOk[c] = "true" => pc[c] \in {"get2", "done"} /\ nGet[c] = 2
            /\ retry[c] = "401" => pc[c] = "done" /\ result[c] = "none"

C4_Witness ==
    \E c \in Calls :
        /\ primary[c] = "401" /\ refreshOk[c] = "true" /\ retry[c] = "401"
        /\ pc[c] = "done" /\ nGet[c] = 2 /\ RefreshesAfterGet[c] = 1

\* C5 as stated: every call issues at most one refresh exchange and at most
\* two GETs, whatever the credential state it started from.
C5_AtMostOneRefreshPerCall ==
    \A c \in Calls : nRefresh[c] <= 1 /\ nGet[c] <= 2

\* C5 as amended: every call issues at most two refresh exchanges, one
\* before its primary GET and only when no access token is held at entry,
\* one after it and only for a 401, and at most two GETs.
C5_AtMostTwoRefreshesPerCall ==
    [][\A c \in Calls :
          /\ nRefresh'[c] <= 2 /\ nGet'[c] <= 2
          /\ nRefreshPre'[c] <= 1 /\ nRefresh'[c] - nRefreshPre'[c] <= 1
          /\ nRefreshPre'[c] > nRefreshPre[c] =>
                 pc[c] = "idle" /\ STRAVA_ACCESS_TOKEN \in {None, Empty}
          /\ nRefresh'[c] - nRefreshPre'[c] > nRefresh[c] - nRefreshPre[c] =>
                 pc[c] = "get1" /\ primary'[c] = "401"]_vars

C5_Witness ==
    \E c \in Calls :
        /\ pc[c] = "done" /\ nRefreshPre[c] = 1 /\ primary[c] = "401"
        /\ nRefresh[c] = 2 /\ nGet[c] = 2

\* C6: the step in which refresh_access_token returns False leaves the
\* stored access token and the stored refresh token as they were.
C6_FailedRefreshKeepsTokens ==
    [][\A c \in Calls :
          (refreshOk[c] = "pending" /\ refreshOk'[c] = "false") =>
              /\ STRAVA_ACCESS_TOKEN' = STRAVA_ACCESS_TOKEN
              /\ STRAVA_REFRESH_TOKEN' = STRAVA_REFRESH_TOKEN]_vars

\* C7: the step in which refresh_access_token returns True leaves the stored
\* refresh token and access token equal to the ones that exchange returned,
\* and every exchange sends the refresh token stored when it is issued.
C7_RotatedRefreshTokenStored ==
    [][\A c \in Calls :
          /\ (refreshOk[c] = "pending" /\ refreshOk'[c] = "true") =>
                 /\ STRAVA_REFRESH_TOKEN' = granted'.rt
                 /\ STRAVA_ACCESS_TOKEN' = granted'.at
                 /\ granted'.rt # Missing /\ granted'.at \notin {Missing, None}
          /\ nRefresh'[c] > nRefresh[c] => data'[c] = STRAVA_REFRESH_TOKEN]_vars

\* A second exchange has been issued, carrying the refresh token the first
\* one returned and not the configured one it consumed.
C7_Witness ==
    \E c \in Calls :
        /\ pc[c] \in Refreshing
        /\ granted.rt = 2
        /\ data[c] = granted.rt
        /\ STRAVA_REFRESH_TOKEN = granted.rt

\* C8: no GET leaves carrying an access token whose known expires_at has
\* passed.
C8_NoGetWithExpiredToken == ~sentExpired

\* C9: a transport failure on the primary GET ends the call with absence,
\* with no refresh after it and no second GET; and a call issues a refresh
\* after a GET only when that GET was answered 401.
C9_TransportErrorNoRefresh ==
    \A c \in Calls :
        /\ primary[c] = "transport" =>
               /\ pc[c] = "done" /\ result[c] = "none"
               /\ RefreshesAfterGet[c] = 0 /\ nGet[c] = 1
        /\ RefreshesAfterGet[c] > 0 => primary[c] = "401"

C9_Witness ==
    \E c \in Calls :
        primary[c] = "transport" /\ pc[c] = "done" /\ result[c] = "none"

\* C10: the step that handles a non-2xx status other than 401 on the primary
\* GET ends the call with absence, issues no refresh and no GET, and leaves
\* the credential state unchanged.
C10_OtherStatusIsTerminal ==
    [][\A c \in Calls :
          (primary[c] = "pending" /\ primary'[c] = "err") =>
              /\ pc'[c] = "done" /\ result'[c] = "none"
              /\ nRefresh' = nRefresh /\ nGet' = nGet
              /\ credentials' = credentials]_vars

C10_Witness ==
    \E c \in Calls :
        /\ primary[c] = "err" /\ pc[c] = "done" /\ result[c] = "none"
        /\ nGet[c] = 1 /\ RefreshesAfterGet[c] = 0

\* C11: make_strava_request never changes the mapping its caller passed: in
\* every state it holds the keys the caller put in it, and no access_token.
C11_CallerParamsUntouched ==
    \A c \in Calls : callerParams[c] = supplied_params(Caller(c))

\* C12: make_strava_request and refresh_access_token never raise: a call
\* ends with a JSON value or with absence, with absence whenever its last GET
\* was not answered 2xx with JSON or its refresh failed; a refresh returns
\* True or False, and True only with an access token, a refresh token and an
\* expiry read from the response.
C12_NeverRaises ==
    [][\A c \in Calls :
          /\ result'[c] \in {"pending", "json", "none"}
          /\ refreshOk'[c] \in {"none", "pending", "true", "false"}
          /\ pc'[c] = "done" =>
                 /\ result'[c] \in {"json", "none"}
                 /\ result'[c] = "json" <=>
                        \/ retry'[c] = "ok"
                        \/ retry'[c] = "pending" /\ primary'[c] = "ok"
                 /\ refreshOk'[c] = "false" => result'[c] = "none"
          /\ (refreshOk[c] = "pending" /\ refreshOk'[c] = "true") =>
                 /\ STRAVA_ACCESS_TOKEN' \notin {Missing, None}
                 /\ STRAVA_REFRESH_TOKEN' # Missing
                 /\ expires_at' # Unknown]_vars

C12_Witness ==
    \E c \in Calls :
        /\ pc[c] = "done" /\ result[c] = "none"
        /\ primary[c] = "401" /\ refreshOk[c] = "true" /\ retry[c] = "badjson"

\* C13: a tool whose make_strava_request call returned None returns
\* success = false, an error message and empty data, and every response a
\* tool returns has a boolean under "success".
C13_FailureResponseHasSuccessFalse ==
    toolResponse.status = "returned" =>
        /\ "success" \in toolResponse.keys
        /\ toolResponse.success \in {"true", "false"}
        /\ fetched.kind = "none" =>
               /\ toolResponse.success = "false"
               /\ "error" \in toolResponse.keys
               /\ toolResponse.data \in {"empty_list", "empty_mapping"}

\* C14: for an activity whose start_date is a non-empty string that is no
\* ISO-8601 instant, get_activities and get_activity return a response whose
\* activity has the date "Unknown"; they do not raise.
C14_MalformedDateIsUnknown ==
    ( /\ tool \in {"get_activities", "get_activity"}
      /\ fetched.kind = "json"
      /\ fetched.activity.start_date = "malformed"
      /\ toolResponse.status # "pending" )
    => /\ toolResponse.status = "returned"
       /\ toolResponse.items[1].date = "Unknown"

\* C15: for non-empty raw stats, the stats get_stats returns hold all six
\* buckets, each with count, distance_km, moving_time_hours and
\* elevation_gain_m, and all four are zero in a bucket whose key the raw
\* stats lack.
C15_AllSixBuckets ==
    ( /\ tool = "get_stats"
      /\ toolResponse.status = "returned"
      /\ ~is_empty_stats(fetched.stats) )
    => /\ DOMAIN toolResponse.totals = Buckets
       /\ \A b \in Buckets :
             /\ DOMAIN toolResponse.totals[b] =
                    {"count", "distance_km", "moving_time_hours",
                     "elevation_gain_m"}
             /\ fetched.stats.buckets[b] = "missing" =>
                    /\ toolResponse.totals[b].count = 0
                    /\ toolResponse.totals[b].distance_km = 0
                    /\ toolResponse.totals[b].moving_time_hours = 0
                    /\ toolResponse.totals[b].elevation_gain_m = 0

C15_Witness ==
    /\ tool = "get_stats"
    /\ toolResponse.status = "returned"
    /\ fetched.stats.buckets["ytd_run_totals"] = "missing"
    /\ fetched.stats.buckets["all_ride_totals"] = "full"
    /\ toolResponse.totals["ytd_run_totals"].distance_km = 0
    /\ toolResponse.totals["all_ride_totals"].distance_km = 1235

\* q is num/den rounded to an integer.
Nearest(q, num, den) ==
    /\ 2 * (q * den - num) <= den
    /\ 2 * (num - q * den) <= den

\* The number under a raw key, 0 for an absent key.
OrZero(v) == IF v = Missing THEN 0 ELSE v

\* C16: in a formatted activity distance_km is distance / 1000 rounded to 2
\* decimals, moving_time_minutes is moving_time / 60 rounded to an integer
\* and average_speed_kph is average_speed * 3.6 rounded to 1 decimal, an
\* absent key counting as 0; distance 10000, moving_time 1800 and
\* average_speed 5.0 give 10.0, 30 and 18.0.
C16_UnitConversions ==
    ( /\ tool \in {"get_activities", "get_activity"}
      /\ toolResponse.status = "returned"
      /\ fetched.kind = "json" )
    => LET a == fetched.activity
           f == toolResponse.items[1]
       IN  /\ Nearest(f.distance_km, OrZero(a.distance), 10)
           /\ Nearest(f.moving_time_minutes, OrZero(a.moving_time), 60)
           /\ Nearest(f.average_speed_kph, OrZero(a.average_speed) * 36, 1000)
           /\ ( /\ a.distance = 10000
                /\ a.moving_time = 1800
                /\ a.average_speed = 5000 )
              => /\ f.distance_km = 1000
                 /\ f.moving_time_minutes = 30
                 /\ f.average_speed_kph = 180

C16_Witness ==
    /\ tool = "get_activities"
    /\ toolResponse.status = "returned"
    /\ fetched.activity.distance = 10000
    /\ fetched.activity.moving_time = 1800
    /\ fetched.activity.average_speed = 5000
    /\ toolResponse.items[1].distance_km = 1000
    /\ toolResponse.items[1].moving_time_minutes = 30
    /\ toolResponse.items[1].average_speed_kph = 180

\* C17: no log record a call emits holds its access token or a part of it.
C17_NoTokenInLogRecords ==
    \A c \in Calls : ~tokenLogged[c]

\* C18 as stated: the retry GET sent after a 401 and a refresh that returned
\* True carries the access token that refresh stored, which the global holds
\* at that moment, and never the token the primary GET carried.
C18_RetryTokenNeverPrimaryToken ==
    [][\A c \in Calls :
          (pc[c] = "refresh1" /\ pc'[c] = "get2") =>
              /\ params'[c] = STRAVA_ACCESS_TOKEN'
              /\ params'[c] = granted'.at
              /\ params'[c] # primaryToken[c]]_vars

\* C18 as amended: the retry GET carries the access token that refresh
\* stored, which the global holds at that moment; against the rotating
\* upstream, which issues a new token on each exchange, it is not the token
\* the primary GET carried.
C18_RetryCarriesStoredToken ==
    [][\A c \in Calls :
          (pc[c] = "refresh1" /\ pc'[c] = "get2") =>
              /\ params'[c] = STRAVA_ACCESS_TOKEN'
              /\ params'[c] = granted'.at
              /\ upstreamMode = "rotating" => params'[c] # primaryToken[c]]_vars

C18_Witness ==
    \E c \in Calls :
        /\ pc[c] = "get2" /\ primary[c] = "401" /\ refreshOk[c] = "true"
        /\ params[c] = STRAVA_ACCESS_TOKEN
        /\ params[c] = granted.at
        /\ params[c] # primaryToken[c]

\* C19: a call that found no access token and whose refresh returned False
\* ends with absence and has sent no GET, and every GET in flight carries an
\* access token.
C19_NoGetWithoutToken ==
    \A c \in Calls :
        /\ (nRefreshPre[c] = 1 /\ refreshOk[c] = "false" /\ nRefresh[c] = 1) =>
               pc[c] = "done" /\ result[c] = "none" /\ nGet[c] = 0
        /\ pc[c] \in Getting => params[c] \notin {None, Empty}

\* C20: the stored credentials change only in a step in which a refresh
\* returns; a call that finds an access token sends its primary GET with no
\* refresh before it, and the step that handles a primary GET not answered
\* 401 ends the call with no refresh and the credentials unchanged.
C20_CredentialsChangeOnlyInRefresh ==
    [][/\ credentials' # credentials =>
              \E c \in Calls :
                  /\ pc[c] \in Refreshing
                  /\ refreshOk[c] = "pending" /\ refreshOk'[c] # "pending"
       /\ \A c \in Calls :
              /\ ( /\ pc[c] = "idle" /\ pc'[c] # "idle"
                   /\ STRAVA_ACCESS_TOKEN \notin {None, Empty} ) =>
                     /\ pc'[c] = "get1" /\ nRefresh'[c] = 0
                     /\ credentials' = credentials
              /\ (pc[c] = "get1" /\ pc'[c] # "get1" /\ primary'[c] # "401") =>
                     /\ pc'[c] = "done" /\ nRefresh'[c] = nRefresh[c]
                     /\ credentials' = credentials]_vars

C20_Witness ==
    \E c \in Calls :
        /\ pc[c] = "done" /\ nRefreshPre[c] = 0 /\ primary[c] = "ok"
        /\ nRefresh[c] = 0 /\ result[c] = "json"
        /\ STRAVA_ACCESS_TOKEN = primaryToken[c]
        /\ STRAVA_REFRESH_TOKEN = 1

\* C23: a tool returns its success response only for a non-empty JSON value:
\* for an empty list or an empty mapping it returns the very response it
\* returns when make_strava_request returned None.
C23_EmptyBodyIsFailure ==
    toolResponse.status = "returned" =>
        /\ toolResponse.success = "true" => fetched.kind = "json"
        /\ fetched.kind \in {"empty", "none"} =>
               /\ "error" \in toolResponse.keys
               /\ "success" \notin toolResponse.keys
               /\ toolResponse =
                      failure_response(
                          IF tool \in {"get_activities", "get_routes"}
                          THEN "empty_list" ELSE "empty_mapping")

C23_Witness ==
    /\ tool = "get_routes"
    /\ fetched.kind = "empty"
    /\ toolResponse.status = "returned"
    /\ toolResponse.keys = {"error", "data"}
    /\ toolResponse.data = "empty_list"

\* C22: against the rotating upstream, whenever no refresh exchange is in
\* flight the stored refresh token is the one the upstream accepts, and no
\* exchange is sent carrying a refresh token the upstream has invalidated.
C22_NoPoisonedRefresh ==
    [][upstreamMode = "rotating" =>
          /\ (\A c \in Calls : pc[c] \notin Refreshing) =>
                 STRAVA_REFRESH_TOKEN = upRefresh
          /\ \A c \in Calls :
                 nRefresh'[c] > nRefresh[c] => data'[c] = upRefresh]_vars

\* C21: every call that has been made eventually completes, with a JSON
\* value or with absence, whatever the other calls do and whatever the
\* upstream answers, a 401 to every request included.
C21_EveryCallCompletes ==
    \A c \in Calls :
        (pc[c] # "idle") ~> (pc[c] = "done" /\ result[c] \in {"json", "none"})

\* Every call has completed with absence, each GET having been answered 401.
C21_Witness ==
    \A c \in Calls :
        /\ pc[c] = "done" /\ result[c] = "none"
        /\ primary[c] = "401" /\ retry[c] = "401"

====
